---- MODULE Spec2Model ----
(***************************************************************************)
(* Model of tts-server/server.py: the TTSEngine singleton (lazy           *)
(* initialization, voice prompt loader, two-tier audio cache) and the     *)
(* Flask routes that drive it.  app.run(threaded=True) serves every       *)
(* request on its own thread, so each handler is split into the steps at  *)
(* which it reads or writes state shared with the other threads.          *)
(***************************************************************************)
EXTENDS Integers, Sequences, FiniteSets, TLC

VARIABLES
    model,            \* TTSEngine.model: "None" or the loaded handle
    voice_prompt,     \* TTSEngine.voice_prompt: None or the built prompt
    audio_cache,      \* TTSEngine.audio_cache: dict cache_key -> bytes
    _initialized,     \* TTSEngine._initialized
    cache_files,      \* files <cache_dir>/<key>.wav: key -> bytes
    reference_audio,  \* content of the file config.reference_audio
    reference_text,   \* config.reference_text
    th,               \* per request thread: position and locals
    hist,             \* per request thread: what the current call has done
    sent,             \* the response the last step sent (NoSent: none), with its call
    returned,         \* cache_key -> bytes returned by completed synthesize calls
    contended,        \* cache keys for which two calls were past the memory miss at once
    nreq              \* requests and operator actions so far

vars == <<model, voice_prompt, audio_cache, _initialized, cache_files,
          reference_audio, reference_text, th, hist, sent, returned,
          contended, nreq>>

engine == <<model, voice_prompt, audio_cache, _initialized, cache_files>>

(* ------------------------------ bounds -------------------------------- *)

\* Requests and operator actions in one run.
MaxRequests == 3

\* Request threads that are inside a multi-step handler at the same time.
Threads == {1, 2}
Texts == {"a"}
\* Raw sample buffers the capability may yield (it is not deterministic).
Samples == {"s1", "s2"}
\* Sample rates the capability reports.
SampleRates == {24000}

(* --------------------------- configuration ---------------------------- *)

model_name == "Qwen/Qwen3-TTS-12Hz-0.6B-Base"
default_reference_text ==
    "The shadows grow long as ancient evil stirs in the darkness."

(* ------------------------------ values -------------------------------- *)

None == <<>>
ModelNone == "None"
QwenTTS == "QwenTTS"
\* Content of the reference file: no file, a usable clip, an unusable one.
NoFile == "missing"
Clip == "clip"
Noise == "noise"
\* b"": what open(path, "wb") leaves before write() has run.
EmptyBytes == <<>>

\* Python numbers, in tenths.
PyFloat(v) == [t |-> "float", v |-> v]
PyInt(v) == [t |-> "int", v |-> v]

\* min(a, b) and max(a, b) of Python: the first argument unless the second
\* is strictly smaller (larger).
PyMin(a, b) == IF b.v < a.v THEN b ELSE a
PyMax(a, b) == IF b.v > a.v THEN b ELSE a

\* f"{rate}": repr of a float with one decimal, str of an int.
PyFormat(r) ==
    IF r.t = "float"
    THEN ToString(r.v \div 10) \o "." \o ToString(r.v % 10)
    ELSE ToString(r.v \div 10)

\* A variant of clamp_rate that passes the rate through.
clamp_rate_none(rate) == rate

\* rate = max(0.5, min(2.0, rate))
clamp_rate(rate) == PyMax(PyFloat(5), PyMin(PyFloat(20), rate))

\* hashlib.md5(content).hexdigest(), taken as injective on its input.
md5_hexdigest(content) == "md5(" \o content \o ")"

_get_cache_key(text, rate) ==
    md5_hexdigest(text \o "|" \o PyFormat(rate) \o "|" \o model_name)

\* mono, 16-bit container around the samples at the reported rate.
_array_to_wav(audio_array, sample_rate) == <<"RIFF", sample_rate, audio_array>>

is_initialized == _initialized
has_voice_clone == voice_prompt # None

\* A mapping with k set to v.
Put(d, k, v) == [x \in DOMAIN d \cup {k} |-> IF x = k THEN v ELSE d[x]]

\* A variant of StoreEntry that drops the write.
StoreEntry_lost(d, k, v) == d

\* self.audio_cache[cache_key] = audio_data / bytes written to cache_path
StoreEntry(d, k, v) == Put(d, k, v)

\* A variant of MemoryHit that never finds the key.
MemoryHit_never(cache, k) == FALSE

\* cache_key in self.audio_cache
MemoryHit(cache, k) == k \in DOMAIN cache

\* cache_path.exists()
FileHit(files, k) == k \in DOMAIN files

(* --------------------------- request inputs --------------------------- *)

\* request.get_json(): null, or an object with some of the fields.
JsonNull == [isNull |-> TRUE, keys |-> {}, text |-> "", rate |-> PyFloat(10)]
JsonObj(keys, text, rate) ==
    [isNull |-> FALSE, keys |-> keys, text |-> text, rate |-> rate]
RequestRates == {PyFloat(10)}
Bodies ==
    {JsonNull, JsonObj({}, "", PyFloat(10))}
    \cup {JsonObj({"rate"}, "", r) : r \in RequestRates}
    \cup {JsonObj({"text"}, x, PyFloat(10)) : x \in Texts}
    \cup {JsonObj({"text", "rate"}, x, r) : x \in Texts, r \in RequestRates}

\* request.files / request.form of POST /reference
Uploads == {NoFile, Clip, Noise}
FormTexts == {"", "custom transcript"}

(* --------------------------- thread records --------------------------- *)

Idle == [pc |-> "idle", op |-> "", body |-> JsonNull, text |-> "",
         rate |-> PyFloat(10), audio_data |-> EmptyBytes, upload |-> NoFile]

NoResp == [code |-> 0, error |-> "", audio |-> EmptyBytes,
           initialized |-> FALSE, voice_clone_active |-> FALSE, info |-> ""]

\* calls: capability invocations; inits: passes through the body of
\* initialize; stores: writes to either cache tier; tier: where the call
\* found its key; mode and clone_arg: the capability used and the prompt
\* handed to generate_voice_clone; prior: the bytes earlier calls for the
\* same key had returned when this one started; missing, build_failed: how
\* _load_voice_prompt ended inside this call; speed: the speed handed to
\* the capability; coloaded: this call and another one were inside
\* initialize() together and both loaded the capability.
NoHist == [calls |-> 0, inits |-> 0, stores |-> 0, tier |-> "",
           mode |-> "", clone_arg |-> None, prior |-> {},
           missing |-> FALSE, build_failed |-> FALSE,
           build_model |-> ModelNone, speed |-> None, coloaded |-> FALSE]

\* A request: the route, its JSON body or upload, and the (text, rate)
\* handed to TTSEngine.synthesize.
Request(op, body, text, rate, upload) ==
    [op |-> op, body |-> body, text |-> text, rate |-> rate, upload |-> upload]

Plain(op) == Request(op, JsonNull, "", PyFloat(10), NoFile)

NoSent == [req |-> Plain(""), resp |-> NoResp, hist |-> NoHist]

cache_key(t) == _get_cache_key(th[t].text, th[t].rate)

sent_key == _get_cache_key(sent.req.text, sent.req.rate)

\* A new request runs on a free thread; which one makes no difference, so
\* it is the first free one.
Ready(t) ==
    /\ nreq < MaxRequests
    /\ th[t].pc = "idle"
    /\ \A u \in Threads : u < t => th[u].pc # "idle"

At(t, l) == th[t].pc = l

Goto(t, l) == th' = [th EXCEPT ![t].pc = l]

\* Positions of synthesize after the memory tier missed.
MissPcs == {"syn_file", "syn_promote", "syn_branch", "syn_clone",
            "syn_default", "syn_store", "syn_open", "syn_write"}

PastMemoryMiss(t) == th[t].op = "synthesize" /\ th[t].pc \in MissPcs

(* ------------------------------ responses ----------------------------- *)

\* jsonify({"error": ...}), code
ErrorResponse(code, msg) == [NoResp EXCEPT !.code = code, !.error = msg]

\* Response(audio_data, mimetype="audio/wav", ...)
AudioResponse(audio) == [NoResp EXCEPT !.code = 200, !.audio = audio]

\* The step sends no response.
Quiet == sent' = NoSent

\* A one-step handler answers.
Answer(req, response) ==
    sent' = [req |-> req, resp |-> response, hist |-> NoHist]

\* The handler running on thread t answers and the thread is free again;
\* h is what the call has done.
Finish(t, response, h) ==
    /\ sent' = [req |-> Request(th[t].op, th[t].body, th[t].text,
                                th[t].rate, th[t].upload),
                resp |-> response, hist |-> h]
    /\ th' = [th EXCEPT ![t] = Idle]
    /\ hist' = [hist EXCEPT ![t] = NoHist]

\* A variant of Fail500 without the status code: Flask then answers 200.
Fail500_as200(t, msg, h) ==
    /\ Finish(t, ErrorResponse(200, msg), h)
    /\ UNCHANGED returned

\* except Exception as e: return jsonify({"error": str(e)}), 500
Fail500(t, msg, h) ==
    /\ Finish(t, ErrorResponse(500, msg), h)
    /\ UNCHANGED returned

\* TTSEngine.synthesize returns audio; the route wraps it in a Response.
Return200(t, audio, h) ==
    /\ Finish(t, AudioResponse(audio), h)
    /\ returned' = Put(returned, cache_key(t),
                       (IF cache_key(t) \in DOMAIN returned
                        THEN returned[cache_key(t)] ELSE {}) \cup {audio})

(* ------------------------- the synthesis capability ------------------- *)

\* model.create_voice_clone_prompt(ref_audio, ref_text): the prompt, or None
\* when the call raises (no model loaded yet, no usable clip at the path).
create_voice_clone_prompt(m, audio, text) ==
    IF m = ModelNone \/ audio # Clip THEN None ELSE <<audio, text>>

\* What model.generate / model.generate_voice_clone may yield, as WAV bytes.
Generated == {_array_to_wav(a, sr) : a \in Samples, sr \in SampleRates}

(* ------------------------------- Init --------------------------------- *)

\* Cache files a previous run of the server may have left in cache_dir.
InitialCacheFiles ==
    {<<>>} \cup
    {Put(<<>>, _get_cache_key("a", PyFloat(10)), _array_to_wav("s1", 24000))}

\* TTSEngine.__init__ and the module-level config
Init ==
    /\ model = ModelNone
    /\ voice_prompt = None
    /\ audio_cache = <<>>
    /\ _initialized = FALSE
    /\ cache_files \in InitialCacheFiles
    /\ reference_audio \in {NoFile, Clip}
    /\ reference_text = default_reference_text
    /\ th = [t \in Threads |-> Idle]
    /\ hist = [t \in Threads |-> NoHist]
    /\ sent = NoSent
    /\ returned = <<>>
    /\ contended = {}
    /\ nreq = 0

(* --------------------------- POST /synthesize ------------------------- *)

\* A variant of MissingText that only rejects an empty body.
MissingText_emptyOnly(data) == data.isNull \/ data.keys = {}

\* if not data or "text" not in data
MissingText(data) == data.isNull \/ data.keys = {} \/ "text" \notin data.keys

\* data.get("rate", 1.0)
RateOf(data) == IF "rate" \in data.keys THEN data.rate ELSE PyFloat(10)

\* The route up to the call of tts_engine.synthesize(text, rate)
route_synthesize(t, data) ==
    /\ Ready(t)
    /\ nreq' = nreq + 1
    /\ IF MissingText(data)
       THEN /\ Answer(Request("synthesize", data, "", PyFloat(10), NoFile),
                      ErrorResponse(400, "Missing 'text' field"))
            /\ UNCHANGED <<th, hist>>
       ELSE LET r == clamp_rate(RateOf(data))
                k == _get_cache_key(data.text, r)
            IN /\ th' = [th EXCEPT ![t] = [Idle EXCEPT !.pc = "syn_check_init",
                                                       !.op = "synthesize",
                                                       !.body = data,
                                                       !.text = data.text,
                                                       !.rate = r]]
               /\ hist' = [hist EXCEPT ![t] =
                             [NoHist EXCEPT !.prior =
                                IF k \in DOMAIN returned THEN returned[k] ELSE {}]]
               /\ Quiet
    /\ UNCHANGED <<engine, reference_audio, reference_text, returned, contended>>

\* if not self._initialized: self.initialize(), whose first statement is
\* if self._initialized: return -- two reads of a flag that is never reset
synthesize_check_init(t) ==
    /\ At(t, "syn_check_init")
    /\ IF _initialized
       THEN Goto(t, "syn_memory") /\ UNCHANGED hist
       ELSE /\ Goto(t, "init_load")
            /\ hist' = [hist EXCEPT ![t].inits = @ + 1]
    /\ Quiet
    /\ UNCHANGED <<engine, reference_audio, reference_text, returned,
                   contended, nreq>>

\* Positions inside initialize() after from_pretrained has returned.
LoadedPcs == {"init_mkdir", "lvp_exists", "lvp_build", "init_finish"}

\* The calls that are inside initialize() and have loaded the capability
\* when t has loaded it.
Loaders(t) ==
    {t} \cup {u \in Threads : th[u].op = "synthesize" /\ th[u].pc \in LoadedPcs}

\* The histories after t has loaded the capability: when another call has
\* loaded it too, both record it.
HistAfterLoad(t) ==
    [u \in Threads |->
        IF u \in Loaders(t) /\ Loaders(t) # {t}
        THEN [hist[u] EXCEPT !.coloaded = TRUE] ELSE hist[u]]

\* A variant of initialize_load whose except branch clears the flag.
initialize_load_reset(t) ==
    /\ At(t, "init_load")
    /\ \/ /\ model' = QwenTTS
          /\ Goto(t, "init_mkdir")
          /\ hist' = HistAfterLoad(t)
          /\ Quiet
          /\ UNCHANGED <<returned, _initialized>>
       \/ /\ _initialized' = FALSE
          /\ Fail500(t, "initialize failed", hist[t])
          /\ UNCHANGED model
    /\ UNCHANGED <<voice_prompt, audio_cache, cache_files,
                   reference_audio, reference_text, contended, nreq>>

\* import qwen_tts, pick the device, self.model = QwenTTS.from_pretrained(...);
\* any exception is logged and re-raised.
initialize_load(t) ==
    /\ At(t, "init_load")
    /\ \/ /\ model' = QwenTTS
          /\ Goto(t, "init_mkdir")
          /\ hist' = HistAfterLoad(t)
          /\ Quiet
          /\ UNCHANGED returned
       \/ /\ Fail500(t, "initialize failed", hist[t])
          /\ UNCHANGED model
    /\ UNCHANGED <<voice_prompt, audio_cache, _initialized, cache_files,
                   reference_audio, reference_text, contended, nreq>>

\* Path(config.cache_dir).mkdir(parents=True, exist_ok=True); an exception
\* is logged and re-raised.
initialize_mkdir(t) ==
    /\ At(t, "init_mkdir")
    /\ \/ /\ Goto(t, "lvp_exists")
          /\ Quiet
          /\ UNCHANGED <<hist, returned>>
       \/ Fail500(t, "initialize failed", hist[t])
    /\ UNCHANGED <<engine, reference_audio, reference_text, contended, nreq>>

\* Where _load_voice_prompt returns to: initialize or upload_reference.
AfterLoad(t) == IF th[t].op = "reference" THEN "ref_respond" ELSE "init_finish"

\* The voice prompt after the early return on a missing reference file.
PromptWhenMissing(current) == current

\* _load_voice_prompt: if not ref_path.exists(): warn and return
_load_voice_prompt_exists(t) ==
    /\ At(t, "lvp_exists")
    /\ IF reference_audio = NoFile
       THEN /\ voice_prompt' = PromptWhenMissing(voice_prompt)
            /\ Goto(t, AfterLoad(t))
            /\ hist' = [hist EXCEPT ![t].missing = TRUE]
       ELSE /\ Goto(t, "lvp_build")
            /\ UNCHANGED <<voice_prompt, hist>>
    /\ Quiet
    /\ UNCHANGED <<model, audio_cache, _initialized, cache_files,
                   reference_audio, reference_text, returned, contended,
                   nreq>>

\* A variant of PromptOnBuildFailure that keeps the previous prompt.
PromptOnBuildFailure_kept(current) == current

\* except Exception: self.voice_prompt = None
PromptOnBuildFailure(current) == None

\* _load_voice_prompt: try create_voice_clone_prompt; on any exception
\* log it and set self.voice_prompt = None
_load_voice_prompt_build(t) ==
    /\ At(t, "lvp_build")
    /\ LET p == create_voice_clone_prompt(model, reference_audio, reference_text)
       IN /\ voice_prompt' = IF p = None THEN PromptOnBuildFailure(voice_prompt)
                             ELSE p
          /\ hist' = [hist EXCEPT ![t].build_failed = (p = None),
                                  ![t].build_model = model]
    /\ Goto(t, AfterLoad(t))
    /\ Quiet
    /\ UNCHANGED <<model, audio_cache, _initialized, cache_files,
                   reference_audio, reference_text, returned, contended,
                   nreq>>

\* A variant of initialize_finish that leaves the flag as it is.
initialize_finish_noflag(t) ==
    /\ At(t, "init_finish")
    /\ Goto(t, "syn_memory")
    /\ Quiet
    /\ UNCHANGED <<model, voice_prompt, audio_cache, cache_files, _initialized,
                   reference_audio, reference_text, hist, returned,
                   contended, nreq>>

\* initialize(): self._initialized = True
initialize_finish(t) ==
    /\ At(t, "init_finish")
    /\ _initialized' = TRUE
    /\ Goto(t, "syn_memory")
    /\ Quiet
    /\ UNCHANGED <<model, voice_prompt, audio_cache, cache_files,
                   reference_audio, reference_text, hist, returned,
                   contended, nreq>>

(* ------------------------ TTSEngine.synthesize ------------------------ *)

\* Another call for the same key is already past its memory miss.
Overlaps(t) ==
    \E u \in Threads \ {t} : PastMemoryMiss(u) /\ cache_key(u) = cache_key(t)

\* if cache_key in self.audio_cache: return self.audio_cache[cache_key]
synthesize_memory(t) ==
    /\ At(t, "syn_memory")
    /\ IF MemoryHit(audio_cache, cache_key(t))
       THEN /\ Return200(t, audio_cache[cache_key(t)],
                         [hist[t] EXCEPT !.tier = "memory"])
            /\ UNCHANGED contended
       ELSE /\ Goto(t, "syn_file")
            /\ contended' = IF Overlaps(t) THEN contended \cup {cache_key(t)}
                            ELSE contended
            /\ Quiet
            /\ UNCHANGED <<hist, returned>>
    /\ UNCHANGED <<engine, reference_audio, reference_text, nreq>>

\* if cache_path.exists(): audio_data = open(cache_path, "rb").read()
synthesize_file(t) ==
    /\ At(t, "syn_file")
    /\ IF FileHit(cache_files, cache_key(t))
       THEN /\ th' = [th EXCEPT ![t].pc = "syn_promote",
                                ![t].audio_data = cache_files[cache_key(t)]]
            /\ hist' = [hist EXCEPT ![t].tier = "file"]
       ELSE /\ Goto(t, "syn_branch")
            /\ hist' = [hist EXCEPT ![t].tier = "miss"]
    /\ Quiet
    /\ UNCHANGED <<engine, reference_audio, reference_text, returned,
                   contended, nreq>>

\* A variant of synthesize_promote that returns the file's bytes without
\* putting them into the memory mapping.
synthesize_promote_nostore(t) ==
    /\ At(t, "syn_promote")
    /\ Return200(t, th[t].audio_data, hist[t])
    /\ UNCHANGED <<model, voice_prompt, audio_cache, _initialized, cache_files,
                   reference_audio, reference_text, contended, nreq>>

\* self.audio_cache[cache_key] = audio_data; return audio_data
synthesize_promote(t) ==
    /\ At(t, "syn_promote")
    /\ audio_cache' = StoreEntry(audio_cache, cache_key(t), th[t].audio_data)
    /\ Return200(t, th[t].audio_data, [hist[t] EXCEPT !.stores = @ + 1])
    /\ UNCHANGED <<model, voice_prompt, _initialized, cache_files,
                   reference_audio, reference_text, contended, nreq>>

\* if self.voice_prompt is not None
UseVoiceClone(prompt) == prompt # None

synthesize_branch(t) ==
    /\ At(t, "syn_branch")
    /\ Goto(t, IF UseVoiceClone(voice_prompt) THEN "syn_clone" ELSE "syn_default")
    /\ Quiet
    /\ UNCHANGED <<engine, reference_audio, reference_text, hist, returned,
                   contended, nreq>>

\* A variant of Generate that calls the capability a second time when the
\* first call raises.
Generate_retry(t, mode, arg) ==
    LET h == [hist[t] EXCEPT !.calls = @ + 1, !.mode = mode, !.clone_arg = arg,
                             !.speed = th[t].rate]
    IN /\ \/ \E w \in Generated :
               /\ th' = [th EXCEPT ![t].pc = "syn_store", ![t].audio_data = w]
               /\ hist' = [hist EXCEPT ![t] = h]
               /\ Quiet
               /\ UNCHANGED returned
          \/ /\ hist[t].calls = 0
             /\ hist' = [hist EXCEPT ![t] = h]
             /\ Quiet
             /\ UNCHANGED <<th, returned>>
          \/ /\ hist[t].calls > 0
             /\ Fail500(t, "synthesis failed", h)
       /\ UNCHANGED <<engine, reference_audio, reference_text, contended, nreq>>

\* The capability call and _array_to_wav: WAV bytes, or an exception that
\* is logged and re-raised.
Generate(t, mode, arg) ==
    LET h == [hist[t] EXCEPT !.calls = @ + 1, !.mode = mode, !.clone_arg = arg,
                             !.speed = th[t].rate]
    IN /\ \/ \E w \in Generated :
               /\ th' = [th EXCEPT ![t].pc = "syn_store", ![t].audio_data = w]
               /\ hist' = [hist EXCEPT ![t] = h]
               /\ Quiet
               /\ UNCHANGED returned
          \/ Fail500(t, "synthesis failed", h)
       /\ UNCHANGED <<engine, reference_audio, reference_text, contended, nreq>>

\* self.model.generate_voice_clone(text, voice_prompt=self.voice_prompt, speed)
synthesize_clone(t) ==
    /\ At(t, "syn_clone")
    /\ Generate(t, "clone", voice_prompt)

\* self.model.generate(text, speed)
synthesize_default(t) ==
    /\ At(t, "syn_default")
    /\ Generate(t, "default", None)

\* self.audio_cache[cache_key] = audio_data
synthesize_store(t) ==
    /\ At(t, "syn_store")
    /\ audio_cache' = StoreEntry(audio_cache, cache_key(t), th[t].audio_data)
    /\ hist' = [hist EXCEPT ![t].stores = @ + 1]
    /\ Goto(t, "syn_open")
    /\ Quiet
    /\ UNCHANGED <<model, voice_prompt, _initialized, cache_files,
                   reference_audio, reference_text, returned, contended,
                   nreq>>

\* open(cache_path, "wb"): creates or truncates the file, or raises
synthesize_open(t) ==
    /\ At(t, "syn_open")
    /\ \/ /\ cache_files' = StoreEntry(cache_files, cache_key(t), EmptyBytes)
          /\ hist' = [hist EXCEPT ![t].stores = @ + 1]
          /\ Goto(t, "syn_write")
          /\ Quiet
          /\ UNCHANGED returned
       \/ /\ Fail500(t, "write failed", hist[t])
          /\ UNCHANGED cache_files
    /\ UNCHANGED <<model, voice_prompt, audio_cache, _initialized,
                   reference_audio, reference_text, contended, nreq>>

\* f.write(audio_data); return audio_data -- or write raises and the
\* truncated file stays
synthesize_write(t) ==
    /\ At(t, "syn_write")
    /\ \/ /\ cache_files' = StoreEntry(cache_files, cache_key(t), th[t].audio_data)
          /\ Return200(t, th[t].audio_data, hist[t])
       \/ /\ Fail500(t, "write failed", hist[t])
          /\ UNCHANGED cache_files
    /\ UNCHANGED <<model, voice_prompt, audio_cache, _initialized,
                   reference_audio, reference_text, contended, nreq>>

(* ----------------------------- other routes --------------------------- *)

\* tts_engine.has_voice_clone if tts_engine.is_initialized else False
voice_clone_active == IF is_initialized THEN has_voice_clone ELSE FALSE

\* GET /health
health_check ==
    /\ nreq < MaxRequests
    /\ nreq' = nreq + 1
    /\ Answer(Plain("health"),
              [NoResp EXCEPT !.code = 200, !.info = "ok",
                             !.initialized = is_initialized,
                             !.voice_clone_active = voice_clone_active])
    /\ UNCHANGED <<engine, reference_audio, reference_text, th, hist,
                   returned, contended>>

\* GET /voices
list_voices ==
    /\ nreq < MaxRequests
    /\ nreq' = nreq + 1
    /\ Answer(Plain("voices"),
              [NoResp EXCEPT !.code = 200,
                             !.info = IF is_initialized /\ has_voice_clone
                                      THEN "active" ELSE "default"])
    /\ UNCHANGED <<engine, reference_audio, reference_text, th, hist,
                   returned, contended>>

\* GET /status
get_status ==
    /\ nreq < MaxRequests
    /\ nreq' = nreq + 1
    /\ Answer(Plain("status"),
              [NoResp EXCEPT !.code = 200,
                             !.info = IF reference_audio # NoFile
                                      THEN "reference_audio_exists"
                                      ELSE "no reference audio",
                             !.initialized = is_initialized,
                             !.voice_clone_active = voice_clone_active])
    /\ UNCHANGED <<engine, reference_audio, reference_text, th, hist,
                   returned, contended>>

\* A variant of upload_reference that empties the memory mapping when it
\* accepts a new reference clip.
upload_reference_flush(t, upload, form_text) ==
    /\ Ready(t)
    /\ nreq' = nreq + 1
    /\ IF upload = NoFile
       THEN /\ Answer(Plain("reference"),
                      ErrorResponse(400, "No audio file provided"))
            /\ UNCHANGED <<th, reference_audio, reference_text, audio_cache>>
       ELSE /\ th' = [th EXCEPT ![t] = [Idle EXCEPT !.pc = "lvp_exists",
                                                    !.op = "reference",
                                                    !.upload = upload]]
            /\ reference_audio' = upload
            /\ reference_text' = IF form_text = "" THEN reference_text
                                 ELSE form_text
            /\ audio_cache' = <<>>
            /\ Quiet
    /\ UNCHANGED <<model, voice_prompt, _initialized, cache_files, hist,
                   returned, contended>>

\* POST /reference up to the reload: 400 without an audio file, else save
\* the upload over config.reference_audio and set config.reference_text
upload_reference(t, upload, form_text) ==
    /\ Ready(t)
    /\ nreq' = nreq + 1
    /\ IF upload = NoFile
       THEN /\ Answer(Plain("reference"),
                      ErrorResponse(400, "No audio file provided"))
            /\ UNCHANGED <<th, reference_audio, reference_text>>
       ELSE /\ th' = [th EXCEPT ![t] = [Idle EXCEPT !.pc = "lvp_exists",
                                                    !.op = "reference",
                                                    !.upload = upload]]
            /\ reference_audio' = upload
            /\ reference_text' = IF form_text = "" THEN reference_text
                                 ELSE form_text
            /\ Quiet
    /\ UNCHANGED <<engine, hist, returned, contended>>

\* POST /reference after the reload: jsonify(status, message, voice_clone_active)
upload_reference_respond(t) ==
    /\ At(t, "ref_respond")
    /\ Finish(t, [NoResp EXCEPT !.code = 200,
                                !.info = "Reference audio updated",
                                !.voice_clone_active = has_voice_clone],
              hist[t])
    /\ UNCHANGED <<engine, reference_audio, reference_text, returned,
                   contended, nreq>>

(* ------------------------------ environment --------------------------- *)

\* The reference clip is a file the operator keeps on disk (main() tells
\* them where to put it); it can be taken away while the server runs.
reference_removed ==
    /\ reference_audio # NoFile
    /\ nreq < MaxRequests
    /\ nreq' = nreq + 1
    /\ reference_audio' = NoFile
    /\ Quiet
    /\ UNCHANGED <<engine, reference_text, th, hist, returned, contended>>

(* -------------------------------- Next -------------------------------- *)

Next ==
    \/ \E t \in Threads, data \in Bodies : route_synthesize(t, data)
    \/ \E t \in Threads : synthesize_check_init(t)
    \/ \E t \in Threads : initialize_load(t)
    \/ \E t \in Threads : initialize_mkdir(t)
    \/ \E t \in Threads : _load_voice_prompt_exists(t)
    \/ \E t \in Threads : _load_voice_prompt_build(t)
    \/ \E t \in Threads : initialize_finish(t)
    \/ \E t \in Threads : synthesize_memory(t)
    \/ \E t \in Threads : synthesize_file(t)
    \/ \E t \in Threads : synthesize_promote(t)
    \/ \E t \in Threads : synthesize_branch(t)
    \/ \E t \in Threads : synthesize_clone(t)
    \/ \E t \in Threads : synthesize_default(t)
    \/ \E t \in Threads : synthesize_store(t)
    \/ \E t \in Threads : synthesize_open(t)
    \/ \E t \in Threads : synthesize_write(t)
    \/ health_check
    \/ list_voices
    \/ get_status
    \/ \E t \in Threads, u \in Uploads, x \in FormTexts : upload_reference(t, u, x)
    \/ \E t \in Threads : upload_reference_respond(t)
    \/ reference_removed

Spec == Init /\ [][Next]_vars

\* A first start: Path(cache_dir).mkdir creates an empty cache directory.
FreshInit == Init /\ cache_files = <<>>

SpecFresh == FreshInit /\ [][Next]_vars

(* ------------------------------ properties ---------------------------- *)

\* Thread t takes the step.
Moved(t) == th'[t] # th[t]

\* No synthesize call is between its start and its response.
NoSynthesizeRunning == \A t \in Threads : th[t].op # "synthesize"

\* The step just taken answered a POST /synthesize with audio.
SynthesizeReturned == sent.req.op = "synthesize" /\ sent.resp.code = 200

\* C1: whenever no synthesize call is mid-execution, every cache key is in
\* both tiers with the same bytes or in neither.
C1_TiersAgreeWhenQuiet ==
    NoSynthesizeRunning =>
        \A k \in DOMAIN audio_cache \cup DOMAIN cache_files :
            /\ k \in DOMAIN audio_cache
            /\ k \in DOMAIN cache_files
            /\ audio_cache[k] = cache_files[k]

\* C2 as stated: a synthesize call returns the bytes that every call for
\* the same (text, rate) which had returned before it started returned,
\* in every execution.
C2_LaterCallReturnsSameBytes ==
    SynthesizeReturned =>
        \A b \in sent.hist.prior : sent.resp.audio = b

\* C2 as amended: the same, for keys on which no two calls were past a
\* failed memory lookup at the same time.
C2_LaterCallReturnsSameBytesUncontended ==
    (SynthesizeReturned /\ sent_key \notin contended) =>
        \A b \in sent.hist.prior : sent.resp.audio = b

\* A later call for an uncontended key was served after an earlier one had
\* returned.
C2_Witness ==
    /\ SynthesizeReturned
    /\ sent_key \notin contended
    /\ sent.hist.prior # {}
    /\ sent.hist.tier = "memory"

\* C3: when writing the cache file fails, the call fails and neither tier
\* holds an entry for its key.
C3_FailedWriteCachesNothing ==
    (sent.req.op = "synthesize" /\ sent.resp.error = "write failed") =>
        /\ sent.resp.code = 500
        /\ sent_key \notin DOMAIN audio_cache
        /\ sent_key \notin DOMAIN cache_files

\* C4, as steps: a lookup that finds the key ends the call with the stored
\* bytes (memory) or loads them for the return (file), and the miss path is
\* entered only past lookups that found the key in neither tier.
C4_Steps ==
    \A t \in Threads :
        /\ (At(t, "syn_memory") /\ Moved(t)
                /\ cache_key(t) \in DOMAIN audio_cache)
             => /\ th'[t].pc = "idle"
                /\ sent'.resp = AudioResponse(audio_cache[cache_key(t)])
                /\ sent'.hist.calls = 0
        /\ (At(t, "syn_file") /\ Moved(t)
                /\ cache_key(t) \in DOMAIN cache_files)
             => /\ th'[t].pc = "syn_promote"
                /\ th'[t].audio_data = cache_files[cache_key(t)]
        /\ (At(t, "syn_promote") /\ Moved(t))
             => /\ sent'.resp = AudioResponse(th[t].audio_data)
                /\ sent'.hist.calls = 0
        /\ (Moved(t) /\ th'[t].pc = "syn_file")
             => At(t, "syn_memory") /\ cache_key(t) \notin DOMAIN audio_cache
        /\ (Moved(t) /\ th'[t].pc = "syn_branch")
             => At(t, "syn_file") /\ cache_key(t) \notin DOMAIN cache_files
        /\ (Moved(t) /\ th'[t].pc \in {"syn_clone", "syn_default"})
             => At(t, "syn_branch")

\* C4, as states: only a call past both failed lookups has invoked the
\* capability.
C4_OnlyMissesInvoke ==
    /\ \A t \in Threads :
          /\ hist[t].calls > 0 => hist[t].tier = "miss"
          /\ th[t].pc \in {"syn_memory", "syn_file", "syn_promote", "syn_branch"}
               => hist[t].calls = 0
    /\ sent.hist.calls > 0 => sent.hist.tier = "miss"
    /\ sent.hist.tier \in {"memory", "file"} => sent.hist.calls = 0

\* C4: a cache hit in either tier returns the stored bytes without
\* invoking the capability; only misses of both tiers invoke it.
C4_HitShortCircuits == []C4_OnlyMissesInvoke /\ [][C4_Steps]_vars

\* A call was answered from the cache file.
C4_Witness ==
    /\ SynthesizeReturned
    /\ sent.hist.tier = "file"
    /\ sent.hist.calls = 0
    /\ sent.resp.audio # EmptyBytes

\* C5, as steps: the flag never goes back to false, and it becomes true
\* only in the last statement of an initialize that loaded the model.
C5_Steps ==
    /\ _initialized => _initialized'
    /\ (~_initialized /\ _initialized')
         => \E t \in Threads :
               /\ At(t, "init_finish") /\ Moved(t)
               /\ hist[t].inits = 1
               /\ model # ModelNone

\* C5: initialized is false at process start, is set only at the end of a
\* successful initialize, and is never reset by any request.
C5_InitializedMonotone == ~_initialized /\ [][C5_Steps]_vars

\* POST /reference is answered by an engine that is and stays initialized.
C5_Witness ==
    /\ _initialized
    /\ sent.req.op = "reference"
    /\ sent.resp.code = 200

\* The step just taken answered a synthesize call whose initialize raised.
InitializeFailed == sent.resp.error = "initialize failed"

\* C6 as stated: a failed lazy initialization answers 500 after a single
\* attempt, with nothing cached and the engine uninitialized.
C6_FailedInitLeavesUninitialized ==
    InitializeFailed =>
        /\ sent.req.op = "synthesize"
        /\ sent.resp.code = 500
        /\ sent.hist.inits = 1
        /\ sent.hist.calls = 0
        /\ sent.hist.stores = 0
        /\ ~_initialized

\* C6 as amended, the answer: 500 after a single attempt, nothing cached.
C6_FailedInitAnswer ==
    InitializeFailed =>
        /\ sent.req.op = "synthesize"
        /\ sent.resp.code = 500
        /\ sent.hist.inits = 1
        /\ sent.hist.calls = 0
        /\ sent.hist.stores = 0

\* C6 as amended, the steps: the failing step changes neither the flag nor
\* a cache tier; a call that finds the flag false attempts initialization;
\* an attempt either fails the call or goes on to set the flag and to the
\* cache lookup.
C6_Steps ==
    /\ InitializeFailed' =>
          UNCHANGED <<_initialized, voice_prompt, audio_cache, cache_files>>
    /\ \A t \in Threads :
          /\ (At(t, "syn_check_init") /\ Moved(t) /\ ~_initialized)
               => th'[t].pc = "init_load" /\ hist'[t].inits = 1
          /\ (At(t, "init_load") /\ Moved(t))
               => \/ th'[t].pc = "init_mkdir"
                  \/ th'[t].pc = "idle" /\ InitializeFailed'
          /\ (At(t, "init_mkdir") /\ Moved(t))
               => \/ th'[t].pc = "lvp_exists"
                  \/ th'[t].pc = "idle" /\ InitializeFailed'
          /\ (At(t, "init_finish") /\ Moved(t))
               => _initialized' /\ th'[t].pc = "syn_memory"

\* C6 as amended: the failing call answers 500 after one attempt and itself
\* leaves the flag and the caches as they were; the next call that finds the
\* engine uninitialized attempts initialization again.
C6_FailedInitAmended == []C6_FailedInitAnswer /\ [][C6_Steps]_vars

\* A synthesize call failed in initialize and the engine is uninitialized.
C6_Witness ==
    /\ InitializeFailed
    /\ sent.resp.code = 500
    /\ ~_initialized
    /\ audio_cache = <<>>

\* C7: POST /reference with a clip the capability can build a profile from
\* answers voice_clone_active = true, and /health agrees, in every engine
\* state.
C7_ValidReferenceActivates ==
    (sent.req.op = "reference" /\ sent.req.upload = Clip
        /\ sent.resp.code = 200)
      => sent.resp.voice_clone_active /\ voice_clone_active

\* The step of the loader that finds no reference file ends with no
\* voice profile and with /health reporting false.
C8_Steps ==
    \A t \in Threads :
        (At(t, "lvp_exists") /\ Moved(t) /\ reference_audio = NoFile)
          => voice_prompt' = None /\ ~voice_clone_active'

\* C8: whenever _load_voice_prompt runs while the reference file does
\* not exist, the voice profile is None when it returns, whatever it was
\* before, and voice_clone_active is then false.
C8_MissingFileClearsProfile == [][C8_Steps]_vars

\* The capability itself raised when the call h describes built the profile.
CapabilityBuildFailed(h) == h.build_failed /\ h.build_model # ModelNone

\* C9 as stated: after a failed profile build POST /reference answers
\* success with voice_clone_active = false and initialize still completes.
C9_BuildFailureReportsInactive ==
    /\ (sent.req.op = "reference" /\ CapabilityBuildFailed(sent.hist))
         => sent.resp.code = 200 /\ ~sent.resp.voice_clone_active
    /\ \A t \in Threads :
          (th[t].op = "synthesize" /\ CapabilityBuildFailed(hist[t]))
            => th[t].pc = "init_finish" \/ _initialized

\* C9 as amended, the states: /reference answers success with the profile
\* state of the moment of the answer, and initialize completes.
C9_BuildFailureAnswer ==
    /\ (sent.req.op = "reference" /\ CapabilityBuildFailed(sent.hist))
         => /\ sent.resp.code = 200
            /\ sent.resp.voice_clone_active = has_voice_clone
    /\ \A t \in Threads :
          (th[t].op = "synthesize" /\ CapabilityBuildFailed(hist[t]))
            => th[t].pc = "init_finish" \/ _initialized

\* C9 as amended, the steps: a failed build leaves no profile and returns
\* to its caller; only a build changes the profile; without a profile a
\* cache miss takes the default voice.
C9_Steps ==
    /\ \A t \in Threads :
          /\ (At(t, "lvp_build") /\ Moved(t)
                /\ create_voice_clone_prompt(model, reference_audio,
                                             reference_text) = None)
               => /\ voice_prompt' = None
                  /\ th'[t].pc = AfterLoad(t)
                  /\ hist'[t].build_failed
          /\ (At(t, "syn_branch") /\ Moved(t) /\ voice_prompt = None)
               => th'[t].pc = "syn_default"
    /\ voice_prompt' # voice_prompt
         => \E t \in Threads : At(t, "lvp_build") /\ Moved(t)

\* C9 as amended: a failed build makes the profile absent and the
\* enclosing operation succeeds; /reference reports the profile state at
\* the time it answers.
C9_BuildFailureAmended == []C9_BuildFailureAnswer /\ [][C9_Steps]_vars

\* With the model loaded, an upload the capability cannot use is answered
\* with success and voice_clone_active = false.
C9_Witness ==
    /\ sent.req.op = "reference"
    /\ sent.req.upload = Noise
    /\ CapabilityBuildFailed(sent.hist)
    /\ sent.resp.code = 200
    /\ ~sent.resp.voice_clone_active

\* The step just taken answered a POST /synthesize that had no text.
ValidationFailed ==
    /\ sent.req.op = "synthesize"
    /\ sent.req.body.isNull \/ "text" \notin sent.req.body.keys

\* C10, the answer: 400 with an error field, no initialization, no
\* capability call, no store.
C10_ValidationAnswer ==
    ValidationFailed =>
        /\ sent.resp.code = 400
        /\ sent.resp.error # ""
        /\ sent.hist = NoHist

\* C10, the step: the engine, both cache tiers and every running call are
\* as before.
C10_Steps ==
    ValidationFailed' =>
        UNCHANGED <<model, voice_prompt, audio_cache, _initialized,
                    cache_files, th, hist>>

\* C10: POST /synthesize without text answers 400 with an error field and
\* changes nothing: no initialization, no capability call, caches and voice
\* profile as before.
C10_ValidationSideEffectFree ==
    []C10_ValidationAnswer /\ [][C10_Steps]_vars

\* A body without text is rejected while the cache holds an entry.
C10_Witness ==
    /\ ValidationFailed
    /\ ~sent.req.body.isNull
    /\ sent.resp.code = 400
    /\ audio_cache # <<>>

(* ------------------- the rate and the cache key ----------------------- *)

\* Rates a client may send: below, at and above both ends of the range,
\* as JSON numbers with and without a fraction.
ClientRates ==
    {PyFloat(1), PyFloat(5), PyFloat(10), PyFloat(20), PyFloat(100),
     PyInt(0), PyInt(10), PyInt(20), PyInt(30)}

\* Bodies of POST /synthesize that carry a text and one of these rates.
RateBodies == {JsonObj({"text", "rate"}, x, r) : x \in Texts, r \in ClientRates}

\* No handler is running.
AllIdle == \A t \in Threads : th[t].pc = "idle"

\* POST /synthesize alone, one call after the other, with every client rate.
NextRates ==
    \/ \E t \in Threads, data \in RateBodies :
          AllIdle /\ route_synthesize(t, data)
    \/ \E t \in Threads : synthesize_check_init(t)
    \/ \E t \in Threads : initialize_load(t)
    \/ \E t \in Threads : initialize_mkdir(t)
    \/ \E t \in Threads : _load_voice_prompt_exists(t)
    \/ \E t \in Threads : _load_voice_prompt_build(t)
    \/ \E t \in Threads : initialize_finish(t)
    \/ \E t \in Threads : synthesize_memory(t)
    \/ \E t \in Threads : synthesize_file(t)
    \/ \E t \in Threads : synthesize_promote(t)
    \/ \E t \in Threads : synthesize_branch(t)
    \/ \E t \in Threads : synthesize_clone(t)
    \/ \E t \in Threads : synthesize_default(t)
    \/ \E t \in Threads : synthesize_store(t)
    \/ \E t \in Threads : synthesize_open(t)
    \/ \E t \in Threads : synthesize_write(t)

SpecRates == Init /\ [][NextRates]_vars

\* The rate a body asks for (1.0 when it names none), in tenths.
AskedRate(body) == IF "rate" \in body.keys THEN body.rate.v ELSE 10

\* A number of tenths brought into [0.5, 2.0].
Clamped(v) == IF v < 5 THEN 5 ELSE IF v > 20 THEN 20 ELSE v

\* The key of a text at a rate given as a float of v tenths.
KeyAt(text, v) == _get_cache_key(text, PyFloat(v))

\* The rate r of a call that asked for body's rate is that rate clamped,
\* and beyond either end of the range its key k is the key of that end.
UsesClampedRate(body, text, r, k) ==
    /\ r.v = Clamped(AskedRate(body))
    /\ AskedRate(body) > 20 => k = KeyAt(text, 20)
    /\ AskedRate(body) < 5 => k = KeyAt(text, 5)

\* C11: the rate used for the cache key and for the capability call is the
\* client's rate clamped to [0.5, 2.0]; a rate above 2.0 uses the entry of
\* 2.0 and a rate below 0.5 that of 0.5, and gets the bytes cached there.
C11_RateClamped ==
    /\ \A t \in Threads :
          th[t].op = "synthesize" =>
             /\ UsesClampedRate(th[t].body, th[t].text, th[t].rate, cache_key(t))
             /\ hist[t].calls > 0 => hist[t].speed = th[t].rate
    /\ sent.req.op = "synthesize" /\ sent.resp.code # 400 =>
          /\ UsesClampedRate(sent.req.body, sent.req.text, sent.req.rate,
                             sent_key)
          /\ sent.hist.calls > 0 => sent.hist.speed = sent.req.rate
    /\ \A k \in DOMAIN audio_cache \cup DOMAIN cache_files :
          \E x \in Texts, r \in ClientRates :
             /\ 5 <= r.v /\ r.v <= 20
             /\ k \in {_get_cache_key(x, r), KeyAt(x, r.v)}
    /\ SynthesizeReturned =>
          \A b \in sent.hist.prior : sent.resp.audio = b

\* A call with a rate above 2.0 is answered from the memory entry that an
\* earlier call left under the key of rate 2.0.
C11_Witness ==
    /\ SynthesizeReturned
    /\ AskedRate(sent.req.body) > 20
    /\ sent_key = KeyAt(sent.req.text, 20)
    /\ sent.hist.tier = "memory"
    /\ sent.hist.prior = {sent.resp.audio}

\* The rates TTSEngine.synthesize can be called with by the route.
RouteRates == {clamp_rate(r) : r \in ClientRates}

\* C12: the key of a call is that of every call with the same text, the
\* same rate and the same model identifier, and of no call that differs
\* in the text or in the rate.
C12_KeyIsFunctionOfTriple ==
    \A t \in Threads :
        th[t].op = "synthesize" =>
            \A x \in Texts, r \in RouteRates :
                (x = th[t].text /\ r.v = th[t].rate.v)
                    <=> _get_cache_key(x, r) = cache_key(t)

(* --------------------- concurrent first callers ----------------------- *)

\* One statement of the synthesize call running on thread t.
SynthesizeStep(t) ==
    \/ synthesize_check_init(t)
    \/ initialize_load(t)
    \/ initialize_mkdir(t)
    \/ _load_voice_prompt_exists(t)
    \/ _load_voice_prompt_build(t)
    \/ initialize_finish(t)
    \/ synthesize_memory(t)
    \/ synthesize_file(t)
    \/ synthesize_promote(t)
    \/ synthesize_branch(t)
    \/ synthesize_clone(t)
    \/ synthesize_default(t)
    \/ synthesize_store(t)
    \/ synthesize_open(t)
    \/ synthesize_write(t)

\* POST /synthesize alone, calls running concurrently.
NextSynthesize ==
    \/ \E t \in Threads, data \in Bodies : route_synthesize(t, data)
    \/ \E t \in Threads : SynthesizeStep(t)

\* Every request thread that can run does run (threaded=True: one OS thread
\* per request).
SpecSynthesize ==
    /\ Init
    /\ [][NextSynthesize]_vars
    /\ \A t \in Threads : WF_vars(SynthesizeStep(t))

\* The call that just ended was one of two that were inside initialize()
\* together and both loaded the capability, and the other has ended too.
RacingLoadersDone ==
    /\ sent.req.op = "synthesize"
    /\ sent.hist.coloaded
    /\ \A t \in Threads : ~hist[t].coloaded

\* C13 as stated: when two concurrent first callers have both loaded the
\* capability and both have ended, the engine is initialized with a
\* non-null capability handle.
C13_RaceEndsInitialized ==
    RacingLoadersDone => _initialized /\ model # ModelNone

\* C13 as amended, the states: the handle is non-null once a call has
\* loaded it, and a call past initialize() runs on an initialized engine.
C13_LoadedStates ==
    /\ \A t \in Threads :
          /\ hist[t].coloaded => model # ModelNone
          /\ (th[t].op = "synthesize" /\ th[t].pc \in LoadedPcs)
               => model # ModelNone
          /\ (th[t].op = "synthesize"
                /\ th[t].pc \notin LoadedPcs \cup {"syn_check_init", "init_load"})
               => _initialized /\ model # ModelNone
    /\ sent.hist.coloaded => model # ModelNone
    /\ SynthesizeReturned => _initialized /\ model # ModelNone

\* C13 as amended, the steps: creating the cache directory either raises,
\* which fails the call, or the call goes on through the profile loader
\* to set the flag and to the cache lookup.
C13_Steps ==
    \A t \in Threads :
        /\ (At(t, "init_mkdir") /\ Moved(t))
             => \/ th'[t].pc = "lvp_exists"
                \/ /\ th'[t].pc = "idle"
                   /\ sent'.resp = ErrorResponse(500, "initialize failed")
        /\ (th[t].op = "synthesize" /\ At(t, "lvp_exists") /\ Moved(t))
             => th'[t].pc \in {"lvp_build", "init_finish"}
        /\ (th[t].op = "synthesize" /\ At(t, "lvp_build") /\ Moved(t))
             => th'[t].pc = "init_finish"
        /\ (At(t, "init_finish") /\ Moved(t))
             => _initialized' /\ th'[t].pc = "syn_memory"

\* Every call ends with a response.
C13_CallsEnd ==
    \A t \in Threads : th[t].pc # "idle" ~> th[t].pc = "idle"

\* C13 as amended: two concurrent first callers can both load the
\* capability; the handle is then non-null, each of them whose initialize()
\* does not raise sets the flag and goes on, and both calls end.
C13_RaceAmended ==
    []C13_LoadedStates /\ [][C13_Steps]_vars /\ C13_CallsEnd

\* Both calls loaded the capability, the engine is initialized and the
\* second of them has returned audio.
C13_Witness ==
    /\ RacingLoadersDone
    /\ SynthesizeReturned
    /\ _initialized
    /\ model # ModelNone

\* Two calls for key k missed together, the capability gave each of them
\* different bytes, both returned them and no call is running any more.
RacingWritersDone(k) ==
    /\ NoSynthesizeRunning
    /\ k \in contended
    /\ k \in DOMAIN returned
    /\ Cardinality(returned[k]) = 2
    /\ returned[k] \subseteq Generated

\* C14: after two racing writers of the same uncached key have completed,
\* both tiers hold the bytes of one and the same writer.
C14_LastWriteWinsInBothTiers ==
    \A k \in contended :
        RacingWritersDone(k) =>
            /\ k \in DOMAIN audio_cache
            /\ k \in DOMAIN cache_files
            /\ audio_cache[k] \in returned[k]
            /\ audio_cache[k] = cache_files[k]

\* C15: in every reachable state, also in the middle of a synthesize call,
\* a key present in the memory mapping has its cache file on disk.
C15_FileBeforeMemory ==
    \A k \in DOMAIN audio_cache : k \in DOMAIN cache_files

\* The step just taken answered a synthesize call whose capability call
\* raised.
SynthesisFailed == sent.resp.error = "synthesis failed"

\* C16, the answer: 500 with an error body after exactly one capability
\* call and no store, on an engine that is initialized.
C16_FailureAnswer ==
    SynthesisFailed =>
        /\ sent.req.op = "synthesize"
        /\ sent.resp.code = 500
        /\ sent.hist.tier = "miss"
        /\ sent.hist.calls = 1
        /\ sent.hist.stores = 0
        /\ _initialized

\* C16, the step: the failing step leaves both cache tiers and the flag
\* as they were.
C16_Steps ==
    SynthesisFailed' => UNCHANGED <<audio_cache, cache_files, _initialized>>

\* C16: a capability failure on a cache miss fails the call with HTTP 500
\* after a single invocation, caches nothing and leaves the engine
\* initialized.
C16_CapabilityFailureSurfaced == []C16_FailureAnswer /\ [][C16_Steps]_vars

\* A call failed in the capability.
C16_Witness ==
    /\ SynthesisFailed
    /\ sent.resp.code = 500
    /\ sent.hist.calls = 1
    /\ sent_key \notin DOMAIN audio_cache
    /\ _initialized

\* C17, the steps: a call that finds the file reads its bytes and leaves it
\* as it is; it then puts exactly those bytes under its key in the memory
\* mapping and returns them; the mapping never loses a key, and a lookup
\* that finds the key there is a memory hit.
C17_Steps ==
    /\ DOMAIN audio_cache \subseteq DOMAIN audio_cache'
    /\ \A t \in Threads :
          /\ (At(t, "syn_file") /\ Moved(t)
                /\ cache_key(t) \in DOMAIN cache_files)
               => /\ th'[t].pc = "syn_promote"
                  /\ th'[t].audio_data = cache_files[cache_key(t)]
                  /\ UNCHANGED <<audio_cache, cache_files>>
          /\ (At(t, "syn_promote") /\ Moved(t))
               => /\ audio_cache' = Put(audio_cache, cache_key(t),
                                        th[t].audio_data)
                  /\ sent'.resp = AudioResponse(th[t].audio_data)
                  /\ UNCHANGED cache_files
          /\ (At(t, "syn_memory") /\ Moved(t)
                /\ cache_key(t) \in DOMAIN audio_cache)
               => sent'.hist.tier = "memory" /\ sent'.resp.code = 200

\* C17, the answer: a call served from the file returns what the memory
\* mapping now holds for its key, without a capability call.
C17_FileHitAnswer ==
    (SynthesizeReturned /\ sent.hist.tier = "file") =>
        /\ sent_key \in DOMAIN audio_cache
        /\ audio_cache[sent_key] = sent.resp.audio
        /\ sent.hist.calls = 0

\* C17: a file-tier hit returns the file's bytes, leaves the file
\* unchanged and puts those bytes into the memory mapping, so that the
\* next call for the key is a memory hit.
C17_FileHitPromotes == []C17_FileHitAnswer /\ [][C17_Steps]_vars

\* A call was served from a cache file left by an earlier run; the memory
\* mapping and the file now hold the returned bytes.
C17_Witness ==
    /\ SynthesizeReturned
    /\ sent.hist.tier = "file"
    /\ sent.hist.prior = {}
    /\ sent_key \in DOMAIN audio_cache
    /\ sent_key \in DOMAIN cache_files
    /\ audio_cache[sent_key] = sent.resp.audio
    /\ cache_files[sent_key] = sent.resp.audio
    /\ sent.resp.audio \in Generated

\* C18: generate_voice_clone is never invoked with an absent (None) voice
\* profile, whatever /reference or a concurrent initialize does meanwhile.
C18_CloneAlwaysGetsProfile ==
    /\ \A t \in Threads :
          hist[t].mode = "clone" => hist[t].clone_arg # None
    /\ sent.hist.mode = "clone" => sent.hist.clone_arg # None

\* C19, the steps: no statement of POST /reference changes a memory entry
\* or a cache file, and a lookup that finds its key in the memory mapping
\* returns the entry whatever the voice profile is.
C19_Steps ==
    /\ sent'.req.op = "reference" => UNCHANGED <<audio_cache, cache_files>>
    /\ \A t \in Threads :
          /\ (Moved(t) /\ (th[t].op = "reference" \/ th'[t].op = "reference"))
               => UNCHANGED <<audio_cache, cache_files>>
          /\ (At(t, "syn_memory") /\ Moved(t)
                /\ cache_key(t) \in DOMAIN audio_cache)
               => /\ sent'.resp = AudioResponse(audio_cache[cache_key(t)])
                  /\ sent'.hist.calls = 0
                  /\ sent'.hist.mode = ""

\* C19, the answer: a call served from the memory mapping has not invoked
\* the capability, and for a key no two calls raced on it returns the
\* bytes returned before.
C19_CachedAnswer ==
    (SynthesizeReturned /\ sent.hist.tier = "memory") =>
        /\ sent.hist.calls = 0
        /\ sent.hist.clone_arg = None
        /\ sent_key \notin contended =>
              \A b \in sent.hist.prior : sent.resp.audio = b

\* C19: POST /reference leaves every memory entry and every cache file
\* unchanged, and a call for a key cached before the replacement is served
\* the cached bytes without a capability call with the new profile.
C19_ReferenceKeepsCache == []C19_CachedAnswer /\ [][C19_Steps]_vars

\* With a profile built from an uploaded clip active, a call is served
\* bytes from the memory mapping that an earlier call returned.
C19_Witness ==
    /\ SynthesizeReturned
    /\ sent.hist.tier = "memory"
    /\ sent.hist.prior = {sent.resp.audio}
    /\ sent_key \notin contended
    /\ voice_prompt = <<Clip, "custom transcript">>

====
